---- MODULE Spec2Model ----
(***************************************************************************)
(* A model of the resource aggregation engine of incluDS:                  *)
(* ResourceAggregator.searchResources and the part of GooglePlacesService  *)
(* it calls.  One search is a single asynchronous flow; every action below *)
(* is the code that runs between two of its await points.                  *)
(*                                                                         *)
(* Units.  Latitudes are integers in thousandths of a degree, distances    *)
(* integers in thousandths of a mile, the radius an integer number of      *)
(* miles.  All points of the model lie on the meridian of the user, where  *)
(* the haversine formula reduces to R * |dLat| (in radians).               *)
(***************************************************************************)
EXTENDS Integers, Sequences, FiniteSets, TLC

(***************************************************************************)
(* Strings and arrays: the JavaScript library functions the code uses.     *)
(***************************************************************************)

\* String.prototype.toLowerCase on one character.
LowerChar(c) ==
    CASE c = "A" -> "a" [] c = "B" -> "b" [] c = "C" -> "c" [] c = "D" -> "d"
      [] c = "E" -> "e" [] c = "F" -> "f" [] c = "G" -> "g" [] c = "H" -> "h"
      [] c = "I" -> "i" [] c = "J" -> "j" [] c = "K" -> "k" [] c = "L" -> "l"
      [] c = "M" -> "m" [] c = "N" -> "n" [] c = "O" -> "o" [] c = "P" -> "p"
      [] c = "Q" -> "q" [] c = "R" -> "r" [] c = "S" -> "s" [] c = "T" -> "t"
      [] c = "U" -> "u" [] c = "V" -> "v" [] c = "W" -> "w" [] c = "X" -> "x"
      [] c = "Y" -> "y" [] c = "Z" -> "z" [] OTHER -> c

\* String.prototype.toUpperCase on one character.
UpperChar(c) ==
    CASE c = "a" -> "A" [] c = "b" -> "B" [] c = "c" -> "C" [] c = "d" -> "D"
      [] c = "e" -> "E" [] c = "f" -> "F" [] c = "g" -> "G" [] c = "h" -> "H"
      [] c = "i" -> "I" [] c = "j" -> "J" [] c = "k" -> "K" [] c = "l" -> "L"
      [] c = "m" -> "M" [] c = "n" -> "N" [] c = "o" -> "O" [] c = "p" -> "P"
      [] c = "q" -> "Q" [] c = "r" -> "R" [] c = "s" -> "S" [] c = "t" -> "T"
      [] c = "u" -> "U" [] c = "v" -> "V" [] c = "w" -> "W" [] c = "x" -> "X"
      [] c = "y" -> "Y" [] c = "z" -> "Z" [] OTHER -> c

RECURSIVE toLowerCase(_)
toLowerCase(s) ==
    IF Len(s) = 0 THEN "" ELSE LowerChar(Head(s)) \o toLowerCase(Tail(s))

\* String.prototype.includes: k occurs in s as a substring.
includes(s, k) ==
    \E i \in 1..(Len(s) - Len(k) + 1) : SubSeq(s, i, i + Len(k) - 1) = k

\* Array.prototype.join(' ').
RECURSIVE join(_)
join(arr) ==
    IF Len(arr) = 0 THEN ""
    ELSE IF Len(arr) = 1 THEN arr[1]
    ELSE arr[1] \o " " \o join(Tail(arr))

\* The elements of an array.
elements(arr) == {arr[i] : i \in 1..Len(arr)}

\* Array.prototype.filter, with the callback as a function keep[element].
filter(arr, keep) ==
    LET f[i \in 0..Len(arr)] ==
            IF i = 0 THEN <<>>
            ELSE IF keep[arr[i]] THEN Append(f[i - 1], arr[i])
            ELSE f[i - 1]
    IN  f[Len(arr)]

\* Array.prototype.sort, with the comparator as a function cmp[a, b].  The
\* sort is stable (ES2019): each element goes before the first element that
\* compares greater than it, so after every element that compares equal.
sort(arr, cmp) ==
    LET ins(sorted, x) ==
            LET gt == {p \in 1..Len(sorted) : cmp[sorted[p], x] > 0}
                at == IF gt = {} THEN Len(sorted) + 1
                      ELSE CHOOSE p \in gt : \A q \in gt : p <= q
            IN  SubSeq(sorted, 1, at - 1) \o <<x>> \o SubSeq(sorted, at, Len(sorted))
        f[i \in 0..Len(arr)] ==
            IF i = 0 THEN <<>> ELSE ins(f[i - 1], arr[i])
    IN  f[Len(arr)]

\* Array.prototype.slice(0, n).
slice0(arr, n) == SubSeq(arr, 1, IF Len(arr) < n THEN Len(arr) ELSE n)

Abs(x) == IF x < 0 THEN 0 - x ELSE x

(***************************************************************************)
(* GooglePlacesService: the category mapping.                              *)
(***************************************************************************)

\* The keys of categoryMap.
KnownCategories ==
    {"medical", "therapy", "education", "support", "recreation", "other"}

\* categoryMap: the provider place types of each known category.
categoryMap(key) ==
    CASE key = "medical"    -> <<"doctor", "hospital">>
      [] key = "therapy"    -> <<"physiotherapist", "health">>
      [] key = "education"  -> <<"school", "library">>
      [] key = "support"    -> <<"community_center", "local_government_office">>
      [] key = "recreation" -> <<"gym", "park">>
      [] key = "other"      -> <<"establishment">>

\* The JavaScript values a property of categoryMap can have: an array of
\* place types, undefined, or a member of Object.prototype (a function or an
\* object: truthy, and not iterable).
ArrayValue(items) == [isArray |-> TRUE, truthy |-> TRUE, items |-> items]

UndefinedValue == [isArray |-> FALSE, truthy |-> FALSE, items |-> <<>>]

PrototypeMember == [isArray |-> FALSE, truthy |-> TRUE, items |-> <<>>]

\* The lower-case property names categoryMap, an object literal, inherits
\* from Object.prototype.
InheritedKeys == {"constructor", "__proto__"}

\* categoryMap[key]: an own property, an inherited one, or undefined.
categoryMapAt(key) ==
    IF key \in KnownCategories THEN ArrayValue(categoryMap(key))
    ELSE IF key \in InheritedKeys THEN PrototypeMember
    ELSE UndefinedValue

\* A variant of getCategoryTypes that looks the category up as it is written.
getCategoryTypes_CaseSensitive(category) ==
    IF categoryMapAt(category).truthy
    THEN categoryMapAt(category)
    ELSE categoryMapAt("other")

\* getCategoryTypes: categoryMap[category.toLowerCase()] || categoryMap['other'].
getCategoryTypes(category) ==
    IF categoryMapAt(toLowerCase(category)).truthy
    THEN categoryMapAt(toLowerCase(category))
    ELSE categoryMapAt("other")

\* buildSearchText: typeMap[type] || `${type} special needs developmental
\* disabilities`, then the keyword appended when there is one.
typeMap(type) ==
    CASE type = "doctor" -> "developmental pediatrics special needs doctor Down syndrome"
      [] type = "hospital" -> "children hospital special needs developmental disabilities"
      [] type = "pharmacy" -> "pharmacy special needs medication"
      [] type = "dentist" -> "special needs dentist pediatric developmental disabilities"
      [] type = "physiotherapist"
           -> "physical therapy special needs developmental disabilities children"
      [] type = "health" -> "developmental disabilities health center special needs"
      [] type = "spa" -> "therapeutic massage special needs sensory therapy"
      [] type = "school"
           -> "special education school developmental disabilities inclusion"
      [] type = "university"
           -> "university special education program developmental disabilities"
      [] type = "library" -> "library special needs programs accessibility"
      [] type = "primary_school" -> "elementary school special education inclusion"
      [] type = "secondary_school"
           -> "high school special education transition program"
      [] type = "community_center"
           -> "Down syndrome support group community center disability services"
      [] type = "place_of_worship"
           -> "church special needs ministry disability accessible"
      [] type = "local_government_office"
           -> "disability services social services developmental disabilities"
      [] type = "gym" -> "adaptive fitness special needs inclusive recreation therapy"
      [] type = "park" -> "accessible park adaptive playground special needs"
      [] type = "amusement_park" -> "accessible theme park special needs"
      [] type = "bowling_alley" -> "adaptive bowling special needs league"
      [] type = "movie_theater" -> "sensory friendly movies special needs"
      [] type = "zoo" -> "accessible zoo special needs programs"
      [] type = "establishment"
           -> "Down syndrome services developmental disabilities support"
      [] OTHER -> type \o " special needs developmental disabilities"

\* An absent keyword (undefined) and the empty string are both falsy: the
\* model writes both as "".
buildSearchText(type, keyword) ==
    IF keyword = "" THEN typeMap(type) ELSE typeMap(type) \o " " \o keyword

\* searchNearby's requestBody, as far as the request decides it: the text
\* query and the radius of the location bias, which is request.radius.
requestBody(request) ==
    [textQuery |-> buildSearchText(request.types[1], request.keyword),
     radius    |-> request.radius]

(***************************************************************************)
(* ResourceAggregator: the pure helpers.                                   *)
(***************************************************************************)

\* A variant of calculateDistance without toRad: the difference of the
\* latitudes in degrees is taken for radians.
calculateDistance_Degrees(point1, point2) ==
    Abs(point2.lat - point1.lat) * 3959

\* calculateDistance for two points of one meridian: a = sin^2(dLat/2), so
\* c = |dLat| in radians and the result is 3959 * |dLat| * (pi / 180), here
\* in thousandths of a mile for latitudes in thousandths of a degree, with
\* pi = 355/113 and rounded down (3959 * 355 = 1405445, 113 * 180 = 20340).
calculateDistance(point1, point2) ==
    (Abs(point2.lat - point1.lat) * 1405445) \div 20340

\* formatCategoryName: charAt(0).toUpperCase() + slice(1).
formatCategoryName(category) ==
    IF Len(category) = 0 THEN ""
    ELSE UpperChar(Head(category)) \o Tail(category)

\* A variant of convertToAggregatedResult that copies the category as the
\* caller wrote it.
convertToAggregatedResult_RawCategory(place, category, userLocation) ==
    [placeId  |-> place.placeId,
     name     |-> place.name,
     category |-> category,
     location |-> place.location,
     distance |-> calculateDistance(userLocation, place.location),
     source   |-> "google_places"]

\* convertToAggregatedResult: the result has no `types` field (address,
\* rating, phone, website and photoUrl are copied unchanged like name and
\* are left out of the model).
convertToAggregatedResult(place, category, userLocation) ==
    [placeId  |-> place.placeId,
     name     |-> place.name,
     category |-> formatCategoryName(category),
     location |-> place.location,
     distance |-> calculateDistance(userLocation, place.location),
     source   |-> "google_places"]

\* place.types?.join(' ').toLowerCase() || '' : the empty string for a
\* record with no `types` field.
typesText(place) ==
    IF "types" \in DOMAIN place THEN toLowerCase(join(place.types)) ELSE ""

\* calculateRelevanceScore, on the name and the type tags of `place`.
scoreOf(name, types) ==
      (IF includes(name, "down syndrome") \/ includes(name, "developmental disabilit")
       THEN 10 ELSE 0)
    + (IF includes(name, "special needs") \/ includes(name, "inclusion") THEN 8 ELSE 0)
    + (IF includes(name, "adaptive") \/ includes(name, "therapeutic") THEN 6 ELSE 0)
    + (IF includes(name, "children") \/ includes(name, "pediatric") THEN 4 ELSE 0)
    + (IF includes(types, "health") \/ includes(types, "doctor")
          \/ includes(types, "hospital") THEN 3 ELSE 0)
    + (IF includes(types, "school") \/ includes(types, "education") THEN 3 ELSE 0)
    + (IF includes(types, "community") THEN 2 ELSE 0)
    - (IF includes(name, "planet fitness") \/ includes(name, "la fitness") THEN 5 ELSE 0)
    - (IF includes(name, "mcdonalds") \/ includes(name, "starbucks") THEN 10 ELSE 0)
    - (IF includes(types, "gas_station") \/ includes(types, "convenience_store")
       THEN 5 ELSE 0)

calculateRelevanceScore(place) ==
    scoreOf(toLowerCase(place.name), typesText(place))

\* A variant of removeDuplicates that tells places apart by name.
removeDuplicates_ByName(results) ==
    LET seenBefore(i) == {results[j].name : j \in 1..(i - 1)}
        f[i \in 0..Len(results)] ==
            IF i = 0 THEN <<>>
            ELSE IF results[i].name \in seenBefore(i) THEN f[i - 1]
            ELSE Append(f[i - 1], results[i])
    IN  f[Len(results)]

\* A variant of removeDuplicates that keeps the last occurrence of a placeId.
removeDuplicates_KeepLast(results) ==
    LET seenAfter(i) == {results[j].placeId : j \in (i + 1)..Len(results)}
        f[i \in 0..Len(results)] ==
            IF i = 0 THEN <<>>
            ELSE IF results[i].placeId \in seenAfter(i) THEN f[i - 1]
            ELSE Append(f[i - 1], results[i])
    IN  f[Len(results)]

\* removeDuplicates: keeps a result iff its placeId was not seen before it.
removeDuplicates(results) ==
    LET seenBefore(i) == {results[j].placeId : j \in 1..(i - 1)}
        f[i \in 0..Len(results)] ==
            IF i = 0 THEN <<>>
            ELSE IF results[i].placeId \in seenBefore(i) THEN f[i - 1]
            ELSE Append(f[i - 1], results[i])
    IN  f[Len(results)]

(***************************************************************************)
(* The inputs of the model: the caller's filters and what the provider     *)
(* may answer.                                                             *)
(***************************************************************************)

\* The longest category list the caller passes.
MaxCats == 2

\* The categories the caller picks from: a known one with two place types,
\* a known one in another letter case, and one the mapping does not know.
CategoryInputs == {"medical", "Other", "pets"}

\* A category that is the number 42 and not a string: the model writes it
\* as text, and no string category of the model is written so.
NumberCategories == {"42"}

\* Categories whose place types cannot be looked up: the name of a member
\* every object inherits, and a number.
OddCategories == {"constructor"} \cup NumberCategories

\* getCategoryTypes(category) for every category of the model, computed
\* once.  category.toLowerCase() throws for a category that is no string.
categoryTypes ==
    [category \in CategoryInputs \cup OddCategories |->
        [thrown |-> category \in NumberCategories,
         value  |-> IF category \in NumberCategories THEN UndefinedValue
                    ELSE getCategoryTypes(category)]]

\* The radii (miles) the caller picks from.
RadiusInputs == {3, 10}

\* Radii (miles) around the 25,000 m the provider request is limited to:
\* 15 miles are 24,140 m and 16 miles are 25,749 m.
WideRadiusInputs == {15, 16, 100}

\* The keywords the caller picks from: none, or one that no search phrase
\* of the places service contains.
KeywordInputs == {"", "autism"}

UserLocation == [lat |-> 39000, lng |-> 0 - 98000]

\* A provider record `north` thousandths of a degree north of the user.
Place(id, name, north, types) ==
    [placeId  |-> id,
     name     |-> name,
     location |-> [lat |-> UserLocation.lat + north, lng |-> UserLocation.lng],
     types    |-> types]

\* A response mixing far, irrelevant, relevant and repeated records.
MixedBatch ==
    << Place("place-far", "Down Syndrome Association", 200, <<"establishment">>),
       Place("place-7", "Joe's Gas Station", 14, <<"gas_station">>),
       Place("place-42", "Children's Developmental Pediatrics Clinic", 46, <<"doctor">>),
       Place("place-9", "Children's Corner Gas", 0 - 20,
             <<"gas_station", "convenience_store">>),
       Place("place-11", "General Hospital", 30, <<"hospital", "health">>),
       Place("place-42", "Developmental Pediatrics Clinic Annex", 47, <<"doctor">>),
       Place("place-13", "Starbucks Inclusion Cafe", 10, <<"cafe">>) >>

\* Two long responses of relevant records that share two places.
BigBatch1 ==
    << Place("p1", "Adaptive Sports Center", 100, <<"gym">>),
       Place("p2", "Special Needs Alliance", 40, <<"community_center">>),
       Place("p3", "Down Syndrome Network", 120, <<"establishment">>),
       Place("p4", "Pediatric Therapy Group", 60, <<"physiotherapist", "health">>),
       Place("p5", "Inclusion Academy", 40, <<"school">>),
       Place("p6", "Therapeutic Riding Stable", 0 - 80, <<"park">>) >>

BigBatch2 ==
    << Place("p6", "Therapeutic Riding Stable", 0 - 80, <<"park">>),
       Place("p7", "Children's Museum", 25, <<"museum">>),
       Place("p8", "Developmental Disabilities Council", 130,
             <<"local_government_office">>),
       Place("p5", "Inclusion Academy North", 41, <<"school">>),
       Place("p9", "Adaptive Aquatics", 70, <<"gym">>),
       Place("p10", "Special Needs Dental", 90, <<"dentist", "health">>),
       Place("p11", "Pediatric Partners", 110, <<"doctor">>),
       Place("p12", "Planet Fitness Adaptive Gym", 50, <<"gym">>) >>

\* What a successful provider query may return.
Responses == {<<>>, MixedBatch, BigBatch1, BigBatch2}

\* import.meta.env.VITE_GOOGLE_MAPS_API_KEY: unset, or a key.
EnvKeys == {"", "key"}

(***************************************************************************)
(* The state of one search.                                                *)
(***************************************************************************)
VARIABLES
    filters,     \* the argument of searchResources
    envKey,      \* the API key of the environment
    apiKey,      \* GooglePlacesService.apiKey
    pc,          \* the await the search is suspended at
    ci,          \* index of the category of the outer loop
    ti,          \* index of the place type of the inner loop
    allResults,  \* the accumulator of the search
    inFlight,    \* searchNearby calls issued and not settled
    queries,     \* history: every searchNearby call and how it settled
    events,      \* history: "query", "ok", "fail" and "delay", in order
    outcome,     \* of the promise: "pending", "resolved" or "rejected"
    output,      \* the list the promise resolved to
    call,        \* a direct call of an exported function, and what it gave
    self,        \* which searchResources call the variables above are of
    other,       \* the variables of the other searchResources call, if any
    page,        \* the resources page: its module variables, its controls
                 \* and the handlers that are running
    geo,         \* one call of GoogleMapsService.getCurrentLocation
    loader,      \* GoogleMapsService.loadGoogleMaps: the statics, the script
                 \* element and window.google, and the calls made
    slideshow    \* the slideshow: its state object, the document and the
                 \* pointer, and the timeouts set

vars == <<filters, envKey, apiKey, pc, ci, ti, allResults, inFlight,
          queries, events, outcome, output, call, self, other,
          page, geo, loader, slideshow>>

\* What no step of a search changes: the rest of the application.
widgets == <<page, geo, loader, slideshow>>

\* What no step of a single search changes.
aside == <<call, self, other, widgets>>

\* The number of calls of loadGoogleMaps the model follows.
MaxLoads == 3

\* The resources page when its module is loaded: userLocation is null,
\* currentResults is [] (written 0: the results of no search), the search
\* button is enabled, no handler runs.
InitialPage ==
    [userLocation   |-> FALSE,
     inputValue     |-> "",
     disabled       |-> FALSE,
     runs           |-> <<>>,
     initiated      |-> 0,
     currentResults |-> 0,
     markers        |-> 0,
     resultsList    |-> 0,
     mapLoaded      |-> TRUE]

\* getCurrentLocation not yet called: `used` will hold the options of the
\* getCurrentPosition calls made, `errors` the codes of the failures,
\* `settled` the calls of resolve and reject, `inFlight` the number of
\* getCurrentPosition calls not yet answered; userLocation 0 is null.
InitialGeo ==
    [supported    |-> TRUE,
     pc           |-> "idle",
     attemptCount |-> 0,
     used         |-> <<>>,
     inFlight     |-> 0,
     errors       |-> <<>>,
     settled      |-> <<>>,
     userLocation |-> 0]

\* GoogleMapsService when its module is loaded: isLoaded is false, the
\* document has no script of maps.googleapis.com, window.google is
\* undefined.
InitialLoader ==
    [hasKey   |-> TRUE,
     isLoaded |-> FALSE,
     google   |-> FALSE,
     script   |-> "none",
     initMap  |-> 0,
     calls    |-> [i \in 1..MaxLoads |-> "none"]]

\* The slideshow after initSlideshow on a page with three slides:
\* startAutoAdvance has set the interval.  autoAdvanceInterval is whether
\* the state holds the id of an interval (FALSE is null), intervals the
\* number of intervals set and not cleared, resumeTimeouts the number of
\* 10-second timeouts set and not yet elapsed.  sinceHidden follows the
\* tab: "hidden" once it was hidden with auto-advance running, "visible"
\* once it is visible again after that, "none" after any pointer event or
\* click.
InitialSlideshow ==
    [currentSlide        |-> 0,
     totalSlides         |-> 3,
     autoAdvanceInterval |-> TRUE,
     intervals           |-> 1,
     isAutoAdvancing     |-> TRUE,
     hidden              |-> FALSE,
     pointerOver         |-> FALSE,
     resumeTimeouts      |-> 0,
     sinceHidden         |-> "none"]

\* No direct call was made; there is no other search.
NoCall == [op |-> "none"]

NoSearch == [pc |-> "none"]

\* Every list of at most n categories.
CategoryLists(n) ==
    UNION {[1..k -> CategoryInputs] : k \in 0..n}

\* The filters a caller passes: the keyword is optional.  `shape` tells
\* what filters.categories is: "array" for an array (the field categories
\* holds it), "missing" for undefined, "number" for a number.
FilterInputs(radii, keywords, n) ==
    [location : {UserLocation}, radius : radii,
     categories : CategoryLists(n), keyword : keywords, shape : {"array"}]

\* Filters a caller of plain JavaScript may pass: lists with categories
\* whose place types cannot be looked up, and categories that are no list.
MalformedFilterInputs ==
    [location : {UserLocation}, radius : {10},
     categories : UNION {[1..k -> {"medical"} \cup OddCategories] : k \in 1..2},
     keyword : {""}, shape : {"array"}]
    \cup
    [location : {UserLocation}, radius : {10},
     categories : {<<>>}, keyword : {""}, shape : {"missing", "number"}]

\* One search about to be called with filters of fs.
Start(fs) ==
    /\ filters \in fs
    /\ envKey \in EnvKeys
    /\ apiKey = ""
    /\ pc = "idle"
    /\ ci = 0
    /\ ti = 0
    /\ allResults = <<>>
    /\ inFlight = 0
    /\ queries = <<>>
    /\ events = <<>>
    /\ outcome = "pending"
    /\ output = <<>>
    /\ call = NoCall
    /\ self = 1
    /\ other = NoSearch
    /\ page = InitialPage
    /\ geo = InitialGeo
    /\ loader = InitialLoader
    /\ slideshow = InitialSlideshow

Init == Start(FilterInputs(RadiusInputs, {""}, MaxCats))

(***************************************************************************)
(* searchResources: what it does with one response, and with the whole     *)
(* accumulator.                                                            *)
(***************************************************************************)

\* The number of results searchResources returns at most: slice(0, 10).
MaxResults == 10

\* A variant of radiusMeters without the Math.min.
radiusMeters_NoClamp(f) == f.radius * 160934

\* Math.min(filters.radius * 1609.34, 25000), in hundredths of a meter.
radiusMeters(f) ==
    IF f.radius * 160934 < 2500000 THEN f.radius * 160934 ELSE 2500000

\* A variant of withinRadius that compares the miles of the distance with
\* the meters of the provider request.
withinRadius_Meters(place, f) == place.distance <= radiusMeters(f) * 10

\* place.distance <= filters.radius, the radius being in miles.
withinRadius(place, f) == place.distance <= f.radius * 1000

\* { ...place, relevanceScore: this.calculateRelevanceScore(place) }: the
\* score is taken of the converted result.
withRelevanceScore(place) ==
    [placeId        |-> place.placeId,
     name           |-> place.name,
     category       |-> place.category,
     location       |-> place.location,
     distance       |-> place.distance,
     source         |-> place.source,
     relevanceScore |-> calculateRelevanceScore(place)]

\* A variant of isRelevant that keeps a score of zero.
isRelevant_NonNegative(place) == place.relevanceScore >= 0

\* place.relevanceScore > 0.
isRelevant(place) == place.relevanceScore > 0

\* A variant of byRelevance that orders by ascending score.
byRelevance_Ascending(a, b) == a.relevanceScore - b.relevanceScore

\* (a, b) => b.relevanceScore - a.relevanceScore.
byRelevance(a, b) == b.relevanceScore - a.relevanceScore

\* (a, b) => a.distance - b.distance.
byDistance(a, b) == a.distance - b.distance

\* The batch one response adds to the accumulator: converted, filtered by
\* distance, scored, filtered by score, sorted by score.
relevantPlaces(places, category, f) ==
    LET aggregatedPlaces ==
            [i \in 1..Len(places) |->
                convertToAggregatedResult(places[i], category, f.location)]
        filteredPlaces ==
            filter(aggregatedPlaces,
                   [place \in elements(aggregatedPlaces) |-> withinRadius(place, f)])
        scored == [i \in 1..Len(filteredPlaces) |->
                      withRelevanceScore(filteredPlaces[i])]
        relevant == filter(scored, [place \in elements(scored) |-> isRelevant(place)])
    IN  sort(relevant, [a, b \in elements(relevant) |-> byRelevance(a, b)])

\* relevantPlaces for every response, category and radius of the model,
\* computed once (every filters of the model has the location UserLocation).
batchOf ==
    [places \in Responses, category \in CategoryInputs,
     radius \in RadiusInputs \cup WideRadiusInputs |->
        relevantPlaces(places, category,
                       [location |-> UserLocation, radius |-> radius])]

\* A variant of limitedResults that cuts the list before it sorts it.
limitedResults_CutFirst(results) ==
    sort(slice0(removeDuplicates(results), MaxResults),
         [a, b \in elements(results) |-> byDistance(a, b)])

\* A variant of limitedResults that does not cut the list.
limitedResults_NoCut(results) ==
    sort(removeDuplicates(results),
         [a, b \in elements(results) |-> byDistance(a, b)])

\* A variant of limitedResults that leaves the list in accumulator order.
limitedResults_Unsorted(results) ==
    slice0(removeDuplicates(results), MaxResults)

\* The list returned for an accumulator: deduplicated, sorted by distance,
\* cut to the first MaxResults.
limitedResults(results) ==
    slice0(sort(removeDuplicates(results),
                [a, b \in elements(results) |-> byDistance(a, b)]),
           MaxResults)

(***************************************************************************)
(* searchResources as a state machine.  pc names the await the flow is     *)
(* suspended at: "import" (the dynamic import of the places module),       *)
(* "search" (GooglePlacesService.searchNearby), "delay" (the 200 ms        *)
(* timer); "idle" before the call and "done" after the return.             *)
(***************************************************************************)

Last(seq) == seq[Len(seq)]

\* The history with its last query settled as `status`, returning `places`.
settled(qs, status, places) ==
    [qs EXCEPT ![Len(qs)].status = status, ![Len(qs)].places = places]

\* The end of the function: the loops are over, the list is returned.
Return(ev, res, qs, inf) ==
    /\ output' = limitedResults(res)
    /\ outcome' = "resolved"
    /\ pc' = "done"
    /\ allResults' = res
    /\ events' = ev
    /\ queries' = qs
    /\ inFlight' = inf
    /\ UNCHANGED <<aside, filters, envKey, apiKey, ci, ti>>

\* The next iteration of the category loop, or the return after the last:
\* the iteration starts by awaiting the import.
NextCategory(c, ev, res, qs, inf) ==
    IF c <= Len(filters.categories)
    THEN /\ pc' = "import"
         /\ ci' = c
         /\ ti' = 0
         /\ allResults' = res
         /\ events' = ev
         /\ queries' = qs
         /\ inFlight' = inf
         /\ UNCHANGED <<aside, filters, envKey, apiKey, outcome, output>>
    ELSE Return(ev, res, qs, inf)

\* The place types searched for a category: the loop over placesTypes.
placesTypes(category) == categoryTypes[category].value.items

\* placesRequest: the keyword is a fixed phrase.
placesRequest(f, placeType) ==
    [location |-> f.location,
     radius   |-> radiusMeters(f),
     types    |-> <<placeType>>,
     keyword  |-> "Down syndrome developmental disabilities special needs"]

\* A variant of query in which searchNearby fetches whether or not it has a
\* key.
query_FetchWithoutKey(c, t, key) ==
    LET request == placesRequest(filters, placesTypes(filters.categories[c])[t])
    IN  [ci         |-> c,
         category   |-> filters.categories[c],
         placeType  |-> request.types[1],
         radius     |-> request.radius,
         textQuery  |-> requestBody(request).textQuery,
         sentRadius |-> requestBody(request).radius,
         fetched    |-> TRUE,
         status     |-> "pending",
         places     |-> <<>>]

\* The history entry of the searchNearby call for place type t of category
\* c, made with `key` as the API key.
query(c, t, key) ==
    LET request == placesRequest(filters, placesTypes(filters.categories[c])[t])
    IN  [ci         |-> c,
         category   |-> filters.categories[c],
         placeType  |-> request.types[1],
         radius     |-> request.radius,
         textQuery  |-> requestBody(request).textQuery,
         sentRadius |-> requestBody(request).radius,
         fetched    |-> key # "",
         status     |-> "pending",
         places     |-> <<>>]

\* A variant of SearchNearby that does not await the promise: the loop calls
\* searchNearby for every remaining place type of the category at once.
SearchNearby_NotAwaited(c, t, ev, res, qs, inf) ==
    LET key == IF apiKey = "" THEN envKey ELSE apiKey
        types == placesTypes(filters.categories[c])
    IN  /\ apiKey' = key
        /\ queries' = qs \o [k \in 1..(Len(types) - t + 1) |-> query(c, t + k - 1, key)]
        /\ events' = ev \o [k \in 1..(Len(types) - t + 1) |-> "query"]
        /\ inFlight' = inf + (Len(types) - t + 1)
        /\ pc' = "search"
        /\ ci' = c
        /\ ti' = Len(types)
        /\ allResults' = res
        /\ UNCHANGED <<aside, filters, envKey, outcome, output>>

\* The call of searchNearby for place type t of category c, up to the await
\* on its promise.  searchNearby initialises the key when none is cached,
\* and with no key in the environment throws before it fetches.
SearchNearby(c, t, ev, res, qs, inf) ==
    LET key == IF apiKey = "" THEN envKey ELSE apiKey
    IN  /\ apiKey' = key
        /\ queries' = Append(qs, query(c, t, key))
        /\ events' = Append(ev, "query")
        /\ inFlight' = inf + 1
        /\ pc' = "search"
        /\ ci' = c
        /\ ti' = t
        /\ allResults' = res
        /\ UNCHANGED <<aside, filters, envKey, outcome, output>>

\* The next iteration of the place-type loop, or what follows the loop.
NextType(ev, res, qs, inf) ==
    IF ti < Len(placesTypes(filters.categories[ci]))
    THEN SearchNearby(ci, ti + 1, ev, res, qs, inf)
    ELSE NextCategory(ci + 1, ev, res, qs, inf)

\* A variant of Call that rejects a call with no categories.
Call_RejectEmpty ==
    /\ pc = "idle"
    /\ IF Len(filters.categories) = 0
       THEN /\ outcome' = "rejected"
            /\ pc' = "done"
            /\ UNCHANGED <<aside, filters, envKey, apiKey, ci, ti, allResults, inFlight,
                           queries, events, output>>
       ELSE NextCategory(1, events, <<>>, queries, inFlight)

\* searchResources(filters) is called and runs to its first await.  When
\* filters.categories is not iterable the for-of throws and the outermost
\* catch returns the empty list.
Call ==
    /\ pc = "idle"
    /\ IF filters.shape = "array"
       THEN NextCategory(1, events, <<>>, queries, inFlight)
       ELSE Return(events, <<>>, queries, inFlight)

\* A variant of ImportResolved with no try around the category: what the
\* lookup or the for-of throws reaches the outermost catch.
ImportResolved_ReturnEmpty ==
    /\ pc = "import"
    /\ IF /\ ~categoryTypes[filters.categories[ci]].thrown
          /\ categoryTypes[filters.categories[ci]].value.isArray
       THEN SearchNearby(ci, 1, events, allResults, queries, inFlight)
       ELSE Return(events, <<>>, queries, inFlight)

\* The import resolved: the place types of the category are looked up and
\* the first is searched.  When the lookup throws, or what was looked up is
\* not iterable and the for-of throws, catch (error) goes on with the next
\* category.
ImportResolved ==
    /\ pc = "import"
    /\ IF /\ ~categoryTypes[filters.categories[ci]].thrown
          /\ categoryTypes[filters.categories[ci]].value.isArray
       THEN SearchNearby(ci, 1, events, allResults, queries, inFlight)
       ELSE NextCategory(ci + 1, events, allResults, queries, inFlight)

\* searchNearby resolved with `places`: the batch is appended and the flow
\* awaits the delay.
SearchResolved(places) ==
    /\ pc = "search"
    /\ Last(queries).fetched
    /\ allResults' = allResults
                       \o batchOf[places, filters.categories[ci], filters.radius]
    /\ queries' = settled(queries, "ok", places)
    /\ events' = Append(events, "ok")
    /\ inFlight' = inFlight - 1
    /\ pc' = "delay"
    /\ UNCHANGED <<aside, filters, envKey, apiKey, ci, ti, outcome, output>>

\* A variant of SearchRejected with no try around the query: the rejection
\* reaches the catch of the category, which goes on with the next category.
SearchRejected_SkipCategory ==
    /\ pc = "search"
    /\ NextCategory(ci + 1, Append(events, "fail"), allResults,
                    settled(queries, "failed", <<>>), inFlight - 1)

\* A variant of SearchRejected where the rejection reaches the outermost
\* catch, which returns the empty list.
SearchRejected_ReturnEmpty ==
    /\ pc = "search"
    /\ Return(Append(events, "fail"), <<>>,
              settled(queries, "failed", <<>>), inFlight - 1)

\* A variant of SearchRejected where nothing catches the rejection: the
\* promise of searchResources rejects.
SearchRejected_Throw ==
    /\ pc = "search"
    /\ outcome' = "rejected"
    /\ pc' = "done"
    /\ events' = Append(events, "fail")
    /\ queries' = settled(queries, "failed", <<>>)
    /\ inFlight' = inFlight - 1
    /\ UNCHANGED <<aside, filters, envKey, apiKey, ci, ti, allResults, output>>

\* searchNearby rejected (no key, a transport failure, a status that is not
\* ok): catch (typeError) logs it and the place-type loop goes on.
SearchRejected ==
    /\ pc = "search"
    /\ NextType(Append(events, "fail"), allResults,
                settled(queries, "failed", <<>>), inFlight - 1)

\* The 200 ms timer fired: the place-type loop goes on.
DelayElapsed ==
    /\ pc = "delay"
    /\ NextType(Append(events, "delay"), allResults, queries, inFlight)

Next ==
    \/ Call
    \/ ImportResolved
    \/ \E places \in Responses : SearchResolved(places)
    \/ SearchRejected
    \/ DelayElapsed

Spec == Init /\ [][Next]_vars

(***************************************************************************)
(* The exported functions called on their own.  A caller at "idle" either  *)
(* starts a search or makes one such call, which leaves it at "api" with   *)
(* what the call was given and what it gave in `call`.                     *)
(***************************************************************************)

\* The requests a direct caller of searchNearby passes: the radius is in
\* hundredths of a meter, up to and beyond 25,000 m.
DirectRequests ==
    [location : {UserLocation},
     radius   : {1000000, 2500000, 2500001, 5000000},
     types    : {<<"doctor">>, <<"library">>},
     keyword  : {"", "autism"}]

\* The categories a direct caller of getCategoryTypes passes: the known ones
\* in several spellings, unknown ones, the empty string and names that
\* every object inherits.
DirectCategories ==
    KnownCategories \cup
        {"Medical", "THERAPY", "Other", "pets", "", "constructor",
         "Constructor", "__proto__"}

\* The points calculateDistance is called with: on the meridian of
\* Greenwich, from half a degree south to one degree north.
DirectPoints == [lat : {0 - 500, 0, 500, 1000}, lng : {0}]

\* searchNearby called directly: the service is initialised when it has no
\* key (and throws when the environment has none), and the body is built of
\* the request and sent.
DirectSearchNearby ==
    /\ pc = "idle"
    /\ \E request \in DirectRequests :
          LET key == IF apiKey = "" THEN envKey ELSE apiKey
          IN  /\ apiKey' = key
              /\ call' = [op      |-> "searchNearby",
                          request |-> request,
                          sent    |-> key # "",
                          body    |-> requestBody(request)]
    /\ pc' = "api"
    /\ UNCHANGED <<filters, envKey, ci, ti, allResults, inFlight, queries,
                   events, outcome, output, self, other, widgets>>

\* getCategoryTypes called directly.
DirectGetCategoryTypes ==
    /\ pc = "idle"
    /\ \E category \in DirectCategories :
          call' = [op       |-> "getCategoryTypes",
                   category |-> category,
                   result   |-> getCategoryTypes(category)]
    /\ pc' = "api"
    /\ UNCHANGED <<filters, envKey, apiKey, ci, ti, allResults, inFlight,
                   queries, events, outcome, output, self, other, widgets>>

\* calculateDistance called with two points.
DirectCalculateDistance ==
    /\ pc = "idle"
    /\ \E point1, point2 \in DirectPoints :
          call' = [op     |-> "calculateDistance",
                   point1 |-> point1,
                   point2 |-> point2,
                   result |-> calculateDistance(point1, point2)]
    /\ pc' = "api"
    /\ UNCHANGED <<filters, envKey, apiKey, ci, ti, allResults, inFlight,
                   queries, events, outcome, output, self, other, widgets>>

ApiNext ==
    \/ Next
    \/ DirectSearchNearby
    \/ DirectGetCategoryTypes
    \/ DirectCalculateDistance

\* A search with radii around the provider's limit, or one direct call.
ApiSpec ==
    Start(FilterInputs(WideRadiusInputs, {""}, MaxCats)) /\ [][ApiNext]_vars

(***************************************************************************)
(* Two searchResources calls in one event loop.  The variables of the      *)
(* machine are those of the call that runs; the other call is suspended at *)
(* an await (or not yet called, or over) with its variables in `other`.    *)
(* The static apiKey of the places service is the one thing both see.      *)
(***************************************************************************)

\* The filters the two callers pick from.
ConcurrentFilters ==
    [location   : {UserLocation},
     radius     : RadiusInputs,
     categories : {<<>>, <<"medical">>, <<"Other">>},
     keyword    : {""},
     shape      : {"array"}]

\* The parameters and local variables of the call that runs.
Locals ==
    [filters    |-> filters,
     pc         |-> pc,
     ci         |-> ci,
     ti         |-> ti,
     allResults |-> allResults,
     inFlight   |-> inFlight,
     queries    |-> queries,
     events     |-> events,
     outcome    |-> outcome,
     output     |-> output]

\* Those of a call not yet made, with filters f.
Initial(f) ==
    [filters    |-> f,
     pc         |-> "idle",
     ci         |-> 0,
     ti         |-> 0,
     allResults |-> <<>>,
     inFlight   |-> 0,
     queries    |-> <<>>,
     events     |-> <<>>,
     outcome    |-> "pending",
     output     |-> <<>>]

\* A variant of Switch in which the accumulator is one array shared by the
\* calls instead of a local of each.
Switch_SharedAccumulator ==
    /\ other.pc # "none"
    /\ other' = Locals
    /\ filters' = other.filters
    /\ pc' = other.pc
    /\ ci' = other.ci
    /\ ti' = other.ti
    /\ inFlight' = other.inFlight
    /\ queries' = other.queries
    /\ events' = other.events
    /\ outcome' = other.outcome
    /\ output' = other.output
    /\ self' = 3 - self
    /\ UNCHANGED <<envKey, apiKey, call, allResults, widgets>>

\* The call that runs is at an await (or over, or not yet made) and the
\* event loop goes on with the other call: each call has its own filters,
\* allResults, loop position and promise.
Switch ==
    /\ other.pc # "none"
    /\ other' = Locals
    /\ filters' = other.filters
    /\ pc' = other.pc
    /\ ci' = other.ci
    /\ ti' = other.ti
    /\ allResults' = other.allResults
    /\ inFlight' = other.inFlight
    /\ queries' = other.queries
    /\ events' = other.events
    /\ outcome' = other.outcome
    /\ output' = other.output
    /\ self' = 3 - self
    /\ UNCHANGED <<envKey, apiKey, call, widgets>>

\* Two calls about to be made, each with filters of its own.
ConcurrentInit ==
    /\ filters \in ConcurrentFilters
    /\ envKey \in EnvKeys
    /\ apiKey = ""
    /\ pc = "idle"
    /\ ci = 0
    /\ ti = 0
    /\ allResults = <<>>
    /\ inFlight = 0
    /\ queries = <<>>
    /\ events = <<>>
    /\ outcome = "pending"
    /\ output = <<>>
    /\ call = NoCall
    /\ self = 1
    /\ other \in {Initial(f) : f \in ConcurrentFilters}
    /\ page = InitialPage
    /\ geo = InitialGeo
    /\ loader = InitialLoader
    /\ slideshow = InitialSlideshow

ConcurrentNext ==
    \/ Next
    \/ Switch

ConcurrentSpec == ConcurrentInit /\ [][ConcurrentNext]_vars

\* The same search called with filters that are not as the type says.
MalformedSpec == Start(MalformedFilterInputs) /\ [][Next]_vars

\* The same search called with or without a keyword.
KeywordSpec ==
    Start(FilterInputs(RadiusInputs, KeywordInputs, MaxCats)) /\ [][Next]_vars

(***************************************************************************)
(* The resources page (modules/resources.ts).  A handler that awaits is a  *)
(* run: page.runs holds, for each, the handler, the await it is at and the *)
(* number of the search it started.  The results of search number n are    *)
(* written n: two searches are made with the location, distance and        *)
(* categories of their moment and their results are told apart.            *)
(***************************************************************************)

\* The variables of the search and of the direct calls, which no step of
\* the page, the maps service or the slideshow changes.
searching ==
    <<filters, envKey, apiKey, pc, ci, ti, allResults, inFlight, queries,
      events, outcome, output, call, self, other>>

\* No search is called: the state the other parts of the application start
\* from.
Quiet ==
    /\ filters = [location |-> UserLocation, radius |-> 10,
                  categories |-> <<>>, keyword |-> "", shape |-> "array"]
    /\ envKey = "key"
    /\ apiKey = ""
    /\ pc = "idle"
    /\ ci = 0
    /\ ti = 0
    /\ allResults = <<>>
    /\ inFlight = 0
    /\ queries = <<>>
    /\ events = <<>>
    /\ outcome = "pending"
    /\ output = <<>>
    /\ call = NoCall
    /\ self = 1
    /\ other = NoSearch

\* The number of handler runs the model follows.
MaxRuns == 3

\* What the user may have typed in the location field.
InputValues == {"", "Dallas, TX"}

\* performSearch called by the run at index i of runs, up to its first
\* await or its return: the button is disabled; with no user location it
\* alerts and returns, and finally enables the button; otherwise it awaits
\* searchResources (getSelectedCategories never gives an empty list).
performSearch(p, runs, i) ==
    IF ~p.userLocation
    THEN [p EXCEPT !.disabled = FALSE,
                   !.runs = [runs EXCEPT ![i].pc = "done"]]
    ELSE [p EXCEPT !.disabled = TRUE,
                   !.initiated = @ + 1,
                   !.runs = [runs EXCEPT ![i].pc = "search",
                                         ![i].n = p.initiated + 1]]

\* The user edits the location field.
ChangeInput ==
    /\ \E value \in InputValues \ {page.inputValue} :
          page' = [page EXCEPT !.inputValue = value]
    /\ UNCHANGED <<searching, geo, loader, slideshow>>

\* A click on the search button, which a disabled button does not take:
\* handleManualLocationSearch when the field holds text, performSearch
\* otherwise.
ClickSearchBtn ==
    /\ ~page.disabled
    /\ Len(page.runs) < MaxRuns
    /\ page' =
          IF page.inputValue # ""
          THEN [page EXCEPT !.runs = Append(@,
                   [handler |-> "handleManualLocationSearch",
                    pc |-> "geocode", n |-> 0])]
          ELSE performSearch(page,
                   Append(page.runs, [handler |-> "performSearch",
                                      pc |-> "start", n |-> 0]),
                   Len(page.runs) + 1)
    /\ UNCHANGED <<searching, geo, loader, slideshow>>

\* Enter in the location field with text in it: handleManualLocationSearch
\* runs to the await of the geocoding.
KeypressEnter ==
    /\ page.inputValue # ""
    /\ Len(page.runs) < MaxRuns
    /\ page' = [page EXCEPT !.runs = Append(@,
                   [handler |-> "handleManualLocationSearch",
                    pc |-> "geocode", n |-> 0])]
    /\ UNCHANGED <<searching, geo, loader, slideshow>>

\* A click on the use-my-location button: getCurrentLocationAndSearch runs
\* to the await of getCurrentLocation.
ClickUseLocationBtn ==
    /\ Len(page.runs) < MaxRuns
    /\ page' = [page EXCEPT !.runs = Append(@,
                   [handler |-> "getCurrentLocationAndSearch",
                    pc |-> "locate", n |-> 0])]
    /\ UNCHANGED <<searching, geo, loader, slideshow>>

\* geocodeAddress resolved: the user location is set and performSearch is
\* called.
GeocodeResolved ==
    /\ \E i \in 1..Len(page.runs) :
          /\ page.runs[i].pc = "geocode"
          /\ page' = performSearch([page EXCEPT !.userLocation = TRUE],
                                   page.runs, i)
    /\ UNCHANGED <<searching, geo, loader, slideshow>>

\* getCurrentLocation resolved: it has set the user location; the field is
\* cleared and performSearch is called.
LocationResolved ==
    /\ \E i \in 1..Len(page.runs) :
          /\ page.runs[i].pc = "locate"
          /\ page' = performSearch([page EXCEPT !.userLocation = TRUE,
                                                !.inputValue = ""],
                                   page.runs, i)
    /\ UNCHANGED <<searching, geo, loader, slideshow>>

\* geocodeAddress or getCurrentLocation rejected: the handler alerts and
\* ends without a search.
LocationRejected ==
    /\ \E i \in 1..Len(page.runs) :
          /\ page.runs[i].pc \in {"geocode", "locate"}
          /\ page' = [page EXCEPT !.runs[i].pc = "done"]
    /\ UNCHANGED <<searching, geo, loader, slideshow>>

\* searchResources resolved for a run: currentResults is assigned, the
\* markers and the list are set (addResourceMarkers clears the markers and
\* throws when the maps script is not loaded, which the catch reports), and
\* finally the button is enabled.
SearchResourcesResolved ==
    /\ \E i \in 1..Len(page.runs) :
          /\ page.runs[i].pc = "search"
          /\ page' =
                IF page.mapLoaded
                THEN [page EXCEPT !.currentResults = page.runs[i].n,
                                  !.markers = page.runs[i].n,
                                  !.resultsList = page.runs[i].n,
                                  !.disabled = FALSE,
                                  !.runs[i].pc = "done"]
                ELSE [page EXCEPT !.currentResults = page.runs[i].n,
                                  !.markers = 0,
                                  !.disabled = FALSE,
                                  !.runs[i].pc = "done"]
    /\ UNCHANGED <<searching, geo, loader, slideshow>>

PageInit ==
    /\ Quiet
    /\ page \in {[InitialPage EXCEPT !.mapLoaded = loaded] : loaded \in BOOLEAN}
    /\ geo = InitialGeo
    /\ loader = InitialLoader
    /\ slideshow = InitialSlideshow

PageNext ==
    \/ ChangeInput
    \/ ClickSearchBtn
    \/ KeypressEnter
    \/ ClickUseLocationBtn
    \/ GeocodeResolved
    \/ LocationResolved
    \/ LocationRejected
    \/ SearchResourcesResolved

PageSpec == PageInit /\ [][PageNext]_vars

(***************************************************************************)
(* GoogleMapsService.getCurrentLocation: one call, from the call to the    *)
(* settling of its promise.  The browser answers each getCurrentPosition   *)
(* once, with a position or with an error.                                 *)
(***************************************************************************)

\* The option sets of the attempts, in the order of the array.
attempts ==
    << [enableHighAccuracy |-> TRUE,  timeout |-> 5000,  maximumAge |-> 0],
       [enableHighAccuracy |-> FALSE, timeout |-> 10000, maximumAge |-> 300000],
       [enableHighAccuracy |-> FALSE, timeout |-> 15000, maximumAge |-> 600000] >>

\* The positions the browser may report (numbered; 0 is no position) and
\* the codes of GeolocationPositionError.
Positions == {1, 2}

ErrorCodes == {"PERMISSION_DENIED", "POSITION_UNAVAILABLE", "TIMEOUT"}

\* attempts[index] with the index counted from 0: past the end of the array
\* it is undefined and the browser takes its defaults (no timeout, written
\* 0).
attemptsAt(index) ==
    IF index < Len(attempts) THEN attempts[index + 1]
    ELSE [enableHighAccuracy |-> FALSE, timeout |-> 0, maximumAge |-> 0]

\* tryGeolocation(options): the count goes up and getCurrentPosition is
\* called with the options.
tryGeolocation(g, options) ==
    [g EXCEPT !.attemptCount = @ + 1,
              !.used = Append(@, options),
              !.inFlight = @ + 1,
              !.pc = "attempt"]

\* getCurrentLocation is called: without navigator.geolocation the promise
\* is rejected at once, otherwise the first attempt is made.
GetCurrentLocation ==
    /\ geo.pc = "idle"
    /\ geo' = IF ~geo.supported
              THEN [geo EXCEPT !.settled = Append(@, [how |-> "reject",
                                                      with |-> "not supported"]),
                               !.pc = "settled"]
              ELSE tryGeolocation(geo, attemptsAt(0))
    /\ UNCHANGED <<searching, page, loader, slideshow>>

\* The success callback: the user location is stored and the promise is
\* resolved with it.
PositionSuccess ==
    /\ geo.pc = "attempt"
    /\ \E position \in Positions :
          geo' = [geo EXCEPT !.inFlight = @ - 1,
                             !.userLocation = position,
                             !.settled = Append(@, [how |-> "resolve",
                                                    with |-> position]),
                             !.pc = "settled"]
    /\ UNCHANGED <<searching, page, loader, slideshow>>

\* A variant of PositionError that goes on with a further attempt after the
\* last option set.
PositionError_OneMore ==
    /\ geo.pc = "attempt"
    /\ \E code \in ErrorCodes :
          geo' = IF geo.attemptCount <= Len(attempts)
                 THEN [geo EXCEPT !.inFlight = @ - 1,
                                  !.errors = Append(@, code),
                                  !.pc = "timer"]
                 ELSE [geo EXCEPT !.inFlight = @ - 1,
                                  !.errors = Append(@, code),
                                  !.settled = Append(@, [how |-> "reject",
                                                         with |-> code]),
                                  !.pc = "settled"]
    /\ UNCHANGED <<searching, page, loader, slideshow>>

\* The error callback: while option sets are left a timeout of a second is
\* set for the next attempt, otherwise the promise is rejected with a
\* message chosen by the code of the error.
PositionError ==
    /\ geo.pc = "attempt"
    /\ \E code \in ErrorCodes :
          geo' = IF geo.attemptCount < Len(attempts)
                 THEN [geo EXCEPT !.inFlight = @ - 1,
                                  !.errors = Append(@, code),
                                  !.pc = "timer"]
                 ELSE [geo EXCEPT !.inFlight = @ - 1,
                                  !.errors = Append(@, code),
                                  !.settled = Append(@, [how |-> "reject",
                                                         with |-> code]),
                                  !.pc = "settled"]
    /\ UNCHANGED <<searching, page, loader, slideshow>>

\* The timeout of a second elapsed: tryGeolocation(attempts[attemptCount]),
\* the index counted from 0.
RetryTimeout ==
    /\ geo.pc = "timer"
    /\ geo' = tryGeolocation(geo, attemptsAt(geo.attemptCount))
    /\ UNCHANGED <<searching, page, loader, slideshow>>

(***************************************************************************)
(* GoogleMapsService.loadGoogleMaps.  loader.calls[i] is where call i is:  *)
(* "none" (not made), "loading" (it appended the script and its promise    *)
(* waits for window.initMap or onerror), "polling" (it found a script and  *)
(* checks window.google every 100 ms), "resolved" or "rejected".           *)
(* loader.script is the script element of maps.googleapis.com in the       *)
(* document: "none", "loading", "loaded" or "failed" (an element whose     *)
(* load failed stays in the document).                                     *)
(***************************************************************************)

Settled == {"resolved", "rejected"}

\* loadGoogleMaps is called, as call i (the calls are numbered in the
\* order they are made).
LoadGoogleMaps(i) ==
    /\ loader.calls[i] = "none"
    /\ \A j \in 1..(i - 1) : loader.calls[j] # "none"
    /\ loader' =
          IF loader.isLoaded /\ loader.google
          THEN [loader EXCEPT !.calls[i] = "resolved"]
          ELSE IF ~loader.hasKey
          THEN [loader EXCEPT !.calls[i] = "rejected"]
          ELSE IF loader.script # "none"
          THEN (IF loader.google
                THEN [loader EXCEPT !.isLoaded = TRUE, !.calls[i] = "resolved"]
                ELSE [loader EXCEPT !.calls[i] = "polling"])
          ELSE [loader EXCEPT !.initMap = i,
                              !.script = "loading",
                              !.calls[i] = "loading"]
    /\ UNCHANGED <<searching, page, geo, slideshow>>

\* The script loaded: window.google.maps is defined and the script calls
\* window.initMap, which sets isLoaded and resolves the promise of the call
\* that appended the script.
ScriptLoaded ==
    /\ loader.script = "loading"
    /\ loader' = [loader EXCEPT !.script = "loaded",
                                !.google = TRUE,
                                !.isLoaded = TRUE,
                                !.calls[loader.initMap] = "resolved"]
    /\ UNCHANGED <<searching, page, geo, slideshow>>

\* The script failed to load: onerror rejects the promise of the call that
\* appended it.  Nothing else is undone.
ScriptFailed ==
    /\ loader.script = "loading"
    /\ loader' = [loader EXCEPT !.script = "failed",
                                !.calls[loader.initMap] = "rejected"]
    /\ UNCHANGED <<searching, page, geo, slideshow>>

\* checkLoaded runs for call i after its 100 ms: with window.google.maps
\* it sets isLoaded and resolves, otherwise it sets the timeout again.
CheckLoaded(i) ==
    /\ loader.calls[i] = "polling"
    /\ loader' = IF loader.google
                 THEN [loader EXCEPT !.isLoaded = TRUE, !.calls[i] = "resolved"]
                 ELSE loader
    /\ UNCHANGED <<searching, page, geo, slideshow>>

MapsInit ==
    /\ Quiet
    /\ page = InitialPage
    /\ geo \in {[InitialGeo EXCEPT !.supported = supported] :
                    supported \in BOOLEAN}
    /\ loader \in {[InitialLoader EXCEPT !.hasKey = hasKey] :
                       hasKey \in BOOLEAN}
    /\ slideshow = InitialSlideshow

MapsNext ==
    \/ GetCurrentLocation
    \/ PositionSuccess
    \/ PositionError
    \/ RetryTimeout
    \/ \E i \in 1..MaxLoads : LoadGoogleMaps(i)
    \/ ScriptLoaded
    \/ ScriptFailed
    \/ \E i \in 1..MaxLoads : CheckLoaded(i)

MapsSpec == MapsInit /\ [][MapsNext]_vars

\* The script load eventually succeeds or fails, every timeout set
\* eventually elapses and the browser eventually answers.
FairMapsSpec ==
    /\ MapsSpec
    /\ WF_vars(ScriptLoaded \/ ScriptFailed)
    /\ \A i \in 1..MaxLoads : WF_vars(CheckLoaded(i))
    /\ WF_vars(PositionSuccess \/ PositionError)
    /\ WF_vars(RetryTimeout)

(***************************************************************************)
(* The slideshow (modules/slideshow.ts).                                   *)
(***************************************************************************)

\* The number of 10-second timeouts that may be pending at once.
MaxResumeTimeouts == 2

\* The numbers of slides of the page (slides.length).
SlideCounts == {2, 3}

\* goToSlide: an index out of range is ignored.
goToSlide(st, slideIndex) ==
    IF slideIndex < 0 \/ slideIndex >= st.totalSlides THEN st
    ELSE [st EXCEPT !.currentSlide = slideIndex]

nextSlide(st) == goToSlide(st, (st.currentSlide + 1) % st.totalSlides)

\* startAutoAdvance: an interval the state holds is cleared, a new one is
\* set.
startAutoAdvance(st) ==
    [st EXCEPT !.intervals = (IF st.autoAdvanceInterval THEN @ - 1 ELSE @) + 1,
               !.autoAdvanceInterval = TRUE,
               !.isAutoAdvancing = TRUE]

pauseAutoAdvance(st) ==
    [st EXCEPT !.intervals = IF st.autoAdvanceInterval THEN @ - 1 ELSE @,
               !.autoAdvanceInterval = FALSE,
               !.isAutoAdvancing = FALSE]

resumeAutoAdvance(st) ==
    IF ~st.isAutoAdvancing
    THEN startAutoAdvance([st EXCEPT !.isAutoAdvancing = TRUE])
    ELSE st

\* A click handler of an arrow or an indicator, after it moved the slide:
\* pauseAutoAdvance and a timeout of 10 seconds for resumeAutoAdvance.
pauseForTenSeconds(st) ==
    [pauseAutoAdvance(st) EXCEPT !.resumeTimeouts = @ + 1,
                                 !.sinceHidden = "none"]

\* mouseenter on the slideshow.
MouseEnter ==
    /\ ~slideshow.hidden
    /\ ~slideshow.pointerOver
    /\ slideshow' = [pauseAutoAdvance(slideshow) EXCEPT !.pointerOver = TRUE,
                                                        !.sinceHidden = "none"]
    /\ UNCHANGED <<searching, page, geo, loader>>

\* mouseleave.
MouseLeave ==
    /\ ~slideshow.hidden
    /\ slideshow.pointerOver
    /\ slideshow' = [resumeAutoAdvance(slideshow) EXCEPT !.pointerOver = FALSE,
                                                         !.sinceHidden = "none"]
    /\ UNCHANGED <<searching, page, geo, loader>>

\* A click on the next arrow: manualNext.
ClickNext ==
    /\ ~slideshow.hidden
    /\ slideshow.resumeTimeouts < MaxResumeTimeouts
    /\ slideshow' = pauseForTenSeconds(nextSlide(slideshow))
    /\ UNCHANGED <<searching, page, geo, loader>>

\* A click on the previous arrow: manualPrevious.
ClickPrevious ==
    /\ ~slideshow.hidden
    /\ slideshow.resumeTimeouts < MaxResumeTimeouts
    /\ slideshow' = pauseForTenSeconds(
                        goToSlide(slideshow,
                                  IF slideshow.currentSlide = 0
                                  THEN slideshow.totalSlides - 1
                                  ELSE slideshow.currentSlide - 1))
    /\ UNCHANGED <<searching, page, geo, loader>>

\* A click on an indicator.
ClickIndicator ==
    /\ ~slideshow.hidden
    /\ slideshow.resumeTimeouts < MaxResumeTimeouts
    /\ \E index \in 0..(slideshow.totalSlides - 1) :
          slideshow' = pauseForTenSeconds(goToSlide(slideshow, index))
    /\ UNCHANGED <<searching, page, geo, loader>>

\* A click on the link of a slide: auto-advance is paused and the site
\* navigates.
ClickCta ==
    /\ ~slideshow.hidden
    /\ slideshow' = [pauseAutoAdvance(slideshow) EXCEPT !.sinceHidden = "none"]
    /\ UNCHANGED <<searching, page, geo, loader>>

\* A timeout of 10 seconds elapsed: resumeAutoAdvance.
ResumeTimeout ==
    /\ slideshow.resumeTimeouts > 0
    /\ slideshow' = [resumeAutoAdvance(slideshow) EXCEPT !.resumeTimeouts = @ - 1]
    /\ UNCHANGED <<searching, page, geo, loader>>

\* The interval fired: nextSlide.
IntervalTick ==
    /\ slideshow.intervals > 0
    /\ slideshow' = nextSlide(slideshow)
    /\ UNCHANGED <<searching, page, geo, loader>>

\* visibilitychange: a hidden document pauses; a visible one resumes when
\* state.isAutoAdvancing.
VisibilityChange ==
    /\ slideshow' =
          IF ~slideshow.hidden
          THEN [pauseAutoAdvance(slideshow) EXCEPT
                   !.hidden = TRUE,
                   !.sinceHidden = IF slideshow.intervals > 0 THEN "hidden"
                                   ELSE "none"]
          ELSE [(IF slideshow.isAutoAdvancing THEN resumeAutoAdvance(slideshow)
                 ELSE slideshow) EXCEPT
                   !.hidden = FALSE,
                   !.sinceHidden = IF @ = "hidden" THEN "visible" ELSE "none"]
    /\ UNCHANGED <<searching, page, geo, loader>>

SlideshowInit ==
    /\ Quiet
    /\ page = InitialPage
    /\ geo = InitialGeo
    /\ loader = InitialLoader
    /\ \E n \in SlideCounts :
          slideshow = [InitialSlideshow EXCEPT !.totalSlides = n]

SlideshowNext ==
    \/ MouseEnter
    \/ MouseLeave
    \/ ClickNext
    \/ ClickPrevious
    \/ ClickIndicator
    \/ ClickCta
    \/ ResumeTimeout
    \/ IntervalTick
    \/ VisibilityChange

SlideshowSpec == SlideshowInit /\ [][SlideshowNext]_vars

(***************************************************************************)
(* Properties of searchResources.                                          *)
(***************************************************************************)

Returned == outcome = "resolved"

\* The records of the responses the provider gave, each with the category
\* it was requested under.
Delivered ==
    UNION {{[raw |-> queries[i].places[k], category |-> queries[i].category] :
               k \in 1..Len(queries[i].places)} : i \in 1..Len(queries)}

\* Every record the provider of the model can deliver.
AllRaw == UNION {{r[k] : k \in 1..Len(r)} : r \in Responses}

\* What searchResources turns each record into under each category, and the
\* score of the record itself, computed once.
resultTable ==
    [raw \in AllRaw, category \in CategoryInputs |->
        withRelevanceScore(convertToAggregatedResult(raw, category, UserLocation))]

rawScoreTable == [raw \in AllRaw |-> calculateRelevanceScore(raw)]

resultOf(d) == resultTable[d.raw, d.category]

\* C1 (radius invariant): every entry of the returned list is at a distance
\* of at most filters.radius miles, whatever the provider returned.
C1_RadiusInvariant ==
    Returned =>
        \A i \in 1..Len(output) : output[i].distance <= filters.radius * 1000

\* C1 happens: the provider delivered a record outside the radius and the
\* search returned a non-empty list.
C1_Witness ==
    /\ Returned
    /\ Len(output) > 0
    /\ \E d \in Delivered : resultOf(d).distance > filters.radius * 1000

\* C2 (dedup invariant): no two entries of the returned list share a
\* placeId.
C2_UniquePlaceIds ==
    Returned =>
        \A i, j \in 1..Len(output) :
            i # j => output[i].placeId # output[j].placeId

\* C2 happens: the accumulator held the same placeId twice and the search
\* returned that place.
C2_Witness ==
    /\ Returned
    /\ \E i, j \in 1..Len(allResults) :
          /\ i < j
          /\ allResults[i].placeId = allResults[j].placeId
          /\ \E k \in 1..Len(output) : output[k].placeId = allResults[i].placeId

\* C3 (relevance invariant on the raw record): every entry of the returned
\* list was converted from a provider record whose score, taken of its name
\* and its type tags, is strictly positive.
C3_RawScorePositive ==
    Returned =>
        \A i \in 1..Len(output) :
            \E d \in Delivered :
                /\ resultOf(d) = output[i]
                /\ rawScoreTable[d.raw] > 0

\* C4 (relevance invariant on the evaluated score): every entry of the
\* returned list carries the strictly positive score the aggregator
\* evaluated for it, and no delivered record whose evaluated score is zero
\* or negative is an entry.
C4_EvaluatedScorePositive ==
    Returned =>
        /\ \A i \in 1..Len(output) : output[i].relevanceScore > 0
        /\ \A d \in Delivered :
              resultOf(d).relevanceScore <= 0 =>
                  \A i \in 1..Len(output) : output[i] # resultOf(d)

\* C4 happens: a record within the radius was evaluated to a score of zero
\* or less, and the search returned a non-empty list.
C4_Witness ==
    /\ Returned
    /\ Len(output) > 0
    /\ \E d \in Delivered :
          /\ withinRadius(resultOf(d), filters)
          /\ resultOf(d).relevanceScore <= 0

\* The queries issued for the category at index c of filters.categories.
queriesOf(c) == {i \in 1..Len(queries) : queries[i].ci = c}

\* The list the pipeline of searchResources derives from the responses to
\* the queries of the category at index c alone.
RECURSIVE batchesOf(_, _)
batchesOf(c, i) ==
    IF i > Len(queries) THEN <<>>
    ELSE (IF queries[i].ci = c
          THEN batchOf[queries[i].places, queries[i].category, filters.radius]
          ELSE <<>>) \o batchesOf(c, i + 1)

derivedFrom(c) == limitedResults(batchesOf(c, 1))

\* C5 (partial failure tolerance): for categories [A, B] where every query
\* for A rejected and no query for B did, the search resolves, has queried
\* every place type of B, and returns exactly the list derived from the
\* responses to the queries of B.
C5_PartialFailureTolerance ==
    (/\ pc = "done"
     /\ Len(filters.categories) = 2
     /\ \A i \in queriesOf(1) : queries[i].status = "failed"
     /\ \A i \in queriesOf(2) : queries[i].status # "failed")
    => /\ Returned
       /\ Cardinality(queriesOf(2)) = Len(placesTypes(filters.categories[2]))
       /\ \A i \in queriesOf(2) : queries[i].status = "ok"
       /\ output = derivedFrom(2)

\* C5 happens: every query of the first category rejected, every query of
\* the second succeeded, and the search returned places.
C5_Witness ==
    /\ pc = "done"
    /\ Len(filters.categories) = 2
    /\ queriesOf(1) # {}
    /\ \A i \in queriesOf(1) : queries[i].status = "failed"
    /\ Cardinality(queriesOf(2)) = 2
    /\ \A i \in queriesOf(2) : queries[i].status = "ok"
    /\ Len(output) > 0

\* Every (category index, place type) combination of a category list, the
\* categories in list order and the place types in mapping order.
RECURSIVE combinations(_, _)
combinations(categories, c) ==
    IF c > Len(categories) THEN <<>>
    ELSE [t \in 1..Len(placesTypes(categories[c])) |->
             <<c, placesTypes(categories[c])[t]>>]
         \o combinations(categories, c + 1)

issued == [i \in 1..Len(queries) |-> <<queries[i].ci, queries[i].placeType>>]

\* C6: the queries issued so far are the first combinations, in order, each
\* once, and when the search is over they are all the combinations: a
\* failed query neither stops the later ones nor is issued again.
C6_EveryCombinationOnce ==
    LET all == combinations(filters.categories, 1)
    IN  /\ Len(issued) <= Len(all)
        /\ issued = SubSeq(all, 1, Len(issued))
        /\ pc = "done" => issued = all

\* C6 happens: the search is over and a query that failed was followed by
\* another query.
C6_Witness ==
    /\ pc = "done"
    /\ \E i \in 1..(Len(queries) - 1) : queries[i].status = "failed"

\* C7: between any two consecutive provider queries the delay elapses: every
\* query but the first is issued right after a delay, however the query
\* before it settled.
C7_DelayBetweenQueries ==
    \A i \in 2..Len(events) : events[i] = "query" => events[i - 1] = "delay"

\* C8: at most one provider query is in flight, and a query is issued only
\* after every earlier one has settled.
C8_OneQueryInFlight ==
    /\ inFlight <= 1
    /\ \A i \in 1..(Len(queries) - 1) : queries[i].status # "pending"
    /\ inFlight = Cardinality({i \in 1..Len(queries) : queries[i].status = "pending"})

\* C8 happens: a second query is in flight after the first settled.
C8_Witness ==
    /\ inFlight = 1
    /\ Len(queries) >= 2
    /\ pc = "search"

\* C9: when every query failed the search resolves to the empty list, and
\* the promise never rejects.
C9_TotalFailureIsEmptyList ==
    /\ outcome # "rejected"
    /\ (pc = "done" /\ \A i \in 1..Len(queries) : queries[i].status = "failed")
         => (Returned /\ output = <<>>)

\* C9 happens: the search is over, several queries were issued and all of
\* them failed.
C9_Witness ==
    /\ pc = "done"
    /\ Len(queries) >= 2
    /\ \A i \in 1..Len(queries) : queries[i].status = "failed"

C11_AtMostTen == Len(output) <= 10

\* C11 happens: more than 10 distinct places were accumulated and 10 were
\* returned.
C11_Witness ==
    /\ Returned
    /\ Len(removeDuplicates(allResults)) > 10
    /\ Len(output) = 10

\* C12 (sort order): the returned list is non-decreasing in distance.
C12_SortedByDistance ==
    \A i \in 1..(Len(output) - 1) : output[i].distance <= output[i + 1].distance

\* C12 happens: the search returned several places whose accumulator order
\* (batch by batch, by relevance) was not the order of their distances.
C12_Witness ==
    /\ Returned
    /\ Len(output) >= 3
    /\ \E i, j \in 1..Len(allResults) :
          /\ i < j
          /\ allResults[i].distance > allResults[j].distance
          /\ allResults[i].relevanceScore < allResults[j].relevanceScore

\* The subsequence of `results` made of the first occurrence of each
\* placeId, in input order.
firstOccurrences(results) ==
    LET first == {i \in 1..Len(results) :
                     \A j \in 1..(i - 1) : results[j].placeId # results[i].placeId}
        nth(k) == CHOOSE i \in first : Cardinality({j \in first : j < i}) = k - 1
    IN  [k \in 1..Cardinality(first) |-> results[nth(k)]]

\* C13: removeDuplicates returns the first occurrence of each placeId, in
\* input order, with the fields of that first occurrence (here for every
\* accumulator a search returns from).
C13_FirstOccurrenceWins ==
    Returned => removeDuplicates(allResults) = firstOccurrences(allResults)

\* C13 happens: the accumulator held two records of one placeId that
\* differ in another field.
C13_Witness ==
    /\ Returned
    /\ \E i, j \in 1..Len(allResults) :
          /\ i < j
          /\ allResults[i].placeId = allResults[j].placeId
          /\ allResults[i] # allResults[j]

\* C14: a delivered record within the radius whose score, taken of its name
\* and its type tags, is strictly positive survives the relevance filter:
\* it is in the accumulator.
C14_TypeTagsCount ==
    Returned =>
        \A d \in Delivered :
            (withinRadius(resultOf(d), filters) /\ rawScoreTable[d.raw] > 0)
                => \E k \in 1..Len(allResults) : allResults[k] = resultOf(d)

\* C16: with no categories the call returns the empty list at once: it never
\* awaits, issues no query and applies no delay.
C16_EmptyCategories ==
    Len(filters.categories) = 0 =>
        /\ pc \in {"idle", "done"}
        /\ queries = <<>>
        /\ events = <<>>
        /\ pc = "done" => (Returned /\ output = <<>>)

\* C16 happens: a call with no categories returned.
C16_Witness ==
    /\ Len(filters.categories) = 0
    /\ pc = "done"

\* Whether text ends in a blank and the keyword: what buildSearchText makes of
\* a keyword it was given.
endsWithKeyword(text, keyword) ==
    /\ Len(text) > Len(keyword)
    /\ SubSeq(text, Len(text) - Len(keyword), Len(text)) = " " \o keyword

\* C15: when the caller gave a keyword, the search phrase of every query
\* searchResources issued ends with that keyword.
C15_KeywordAppended ==
    filters.keyword # "" =>
        \A k \in 1..Len(queries) :
            endsWithKeyword(queries[k].textQuery, filters.keyword)

\* The provider's largest radius, 25,000 m, in hundredths of a meter.
ProviderMaxRadius == 2500000

\* C17: every request searchResources builds carries
\* min(radius * 1609.34, 25000), which is at most 25,000 m, and searchNearby
\* sends the radius of the request it is given as it is, whoever calls it.
C17_ClampedBySearchResources ==
    /\ \A k \in 1..Len(queries) :
          /\ queries[k].radius =
                 (IF filters.radius * 160934 < ProviderMaxRadius
                  THEN filters.radius * 160934 ELSE ProviderMaxRadius)
          /\ queries[k].radius <= ProviderMaxRadius
          /\ queries[k].sentRadius = queries[k].radius
    /\ call.op = "searchNearby" => call.body.radius = call.request.radius

\* C17 happens: a query was sent for a radius of more than 25,000 m.
C17_Witness ==
    /\ filters.radius * 160934 > ProviderMaxRadius
    /\ \E k \in 1..Len(queries) :
          queries[k].fetched /\ queries[k].sentRadius = ProviderMaxRadius

\* C17 as stated: whatever radius searchNearby is called with, the radius
\* it sends to the provider is at most 25,000 m.
C17_SearchNearbyClamps ==
    /\ \A k \in 1..Len(queries) : queries[k].sentRadius <= ProviderMaxRadius
    /\ (call.op = "searchNearby" /\ call.sent)
          => call.body.radius <= ProviderMaxRadius

\* C19: getCategoryTypes gives, for every category string, a list of one or
\* two place types: the fixed types of the category when its lower-case
\* spelling is one of the six known, and [establishment] otherwise.
C19_CategoryTypes ==
    call.op = "getCategoryTypes" =>
        /\ call.result.isArray
        /\ Len(call.result.items) \in {1, 2}
        /\ call.result.items =
              (IF toLowerCase(call.category) \in KnownCategories
               THEN categoryMap(toLowerCase(call.category))
               ELSE <<"establishment">>)

RECURSIVE ownBatches(_, _)
ownBatches(s, i) ==
    IF i > Len(s.queries) THEN <<>>
    ELSE batchOf[s.queries[i].places, s.queries[i].category, s.filters.radius]
         \o ownBatches(s, i + 1)

\* A call that is not disturbed: its accumulator always holds the places of
\* the responses to its own queries and nothing else, and when it is over it
\* has issued the queries of its own categories and returned the list made
\* of its own responses, which is what it returns when run alone.
undisturbed(s) ==
    /\ s.allResults = ownBatches(s, 1)
    /\ s.pc = "done" =>
          /\ s.outcome = "resolved"
          /\ [i \in 1..Len(s.queries) |->
                 <<s.queries[i].ci, s.queries[i].placeType>>]
                = combinations(s.filters.categories, 1)
          /\ \A i \in 1..Len(s.queries) : s.queries[i].fetched = (envKey # "")
          /\ s.output = limitedResults(ownBatches(s, 1))

\* C18: of two calls whose steps interleave at their awaits, each returns
\* the list it returns alone for the responses it got: no call sees the
\* accumulator or the results of the other.
C18_NoInterference ==
    other.pc # "none" => (undisturbed(Locals) /\ undisturbed(other))

\* C18 happens: one call ran from start to end and returned places while
\* the other, with other categories, was suspended in its loop with places
\* in its accumulator.
C18_Witness ==
    /\ other.pc \in {"search", "delay"}
    /\ other.allResults # <<>>
    /\ pc = "done"
    /\ output # <<>>
    /\ filters.categories # other.filters.categories

\* The records of a response as the batch holds them, in the order the
\* provider returned them.
asReturned(places, category) ==
    [k \in 1..Len(places) |->
        withRelevanceScore(
            convertToAggregatedResult(places[k], category, UserLocation))]

\* Whether a batch is in order of non-increasing score, with records of
\* equal score in the order of the response they come from.
inScoreOrder(batch, returned) ==
    \A i, j \in 1..Len(batch) :
        i < j =>
            /\ batch[i].relevanceScore >= batch[j].relevanceScore
            /\ batch[i].relevanceScore = batch[j].relevanceScore =>
                  \E k, l \in 1..Len(returned) :
                      k < l /\ returned[k] = batch[i] /\ returned[l] = batch[j]

\* inScoreOrder for the batch of every response, category and radius.
batchInScoreOrder ==
    [places \in Responses, category \in CategoryInputs, radius \in RadiusInputs |->
        inScoreOrder(batchOf[places, category, radius],
                     asReturned(places, category))]

\* C21: the accumulator is the batches of the answered queries one after
\* another, and each batch is in order of non-increasing score with records
\* of equal score in the order the provider returned them.
C21_BatchOrder ==
    /\ allResults = ownBatches(Locals, 1)
    /\ \A i \in 1..Len(queries) :
          queries[i].status = "ok" =>
              batchInScoreOrder[queries[i].places, queries[i].category,
                                filters.radius]

\* C21 happens: a batch was appended that holds two records of equal score
\* and a record the provider returned after one of lower score.
C21_Witness ==
    \E i \in 1..Len(queries) :
        /\ queries[i].status = "ok"
        /\ LET batch == batchOf[queries[i].places, queries[i].category,
                                filters.radius]
               returned == asReturned(queries[i].places, queries[i].category)
           IN  /\ \E a, b \in 1..Len(batch) :
                     a < b /\ batch[a].relevanceScore = batch[b].relevanceScore
               /\ \E a, b \in 1..Len(batch), k, l \in 1..Len(returned) :
                     /\ a < b /\ l < k
                     /\ returned[k] = batch[a] /\ returned[l] = batch[b]
                     /\ batch[a].relevanceScore > batch[b].relevanceScore

\* The answered queries whose batch holds a place of the given placeId:
\* the queries under which the place passed the filters.
passedUnder(placeId) ==
    {i \in 1..Len(queries) :
        /\ queries[i].status = "ok"
        /\ \E e \in elements(batchOf[queries[i].places, queries[i].category,
                                      filters.radius]) : e.placeId = placeId}

\* The provider place types of the queries issued.
providerTypes == {queries[i].placeType : i \in 1..Len(queries)}

\* C22: the category of every output entry is a requested category with its
\* first letter in upper case, never a provider place type, and it is that
\* of the earliest query under which the place passed the filters.
C22_CategoryOfEarliestQuery ==
    Returned =>
        \A k \in 1..Len(output) :
            /\ \E c \in 1..Len(filters.categories) :
                  output[k].category =
                      UpperChar(Head(filters.categories[c]))
                          \o Tail(filters.categories[c])
            /\ output[k].category \notin providerTypes
            /\ passedUnder(output[k].placeId) # {}
            /\ LET first == CHOOSE i \in passedUnder(output[k].placeId) :
                                \A j \in passedUnder(output[k].placeId) : i <= j
               IN  output[k].category =
                       formatCategoryName(queries[first].category)

\* C22 happens: a returned place passed the filters under queries of two
\* categories.
C22_Witness ==
    /\ Returned
    /\ \E k \in 1..Len(output) :
          \E i, j \in passedUnder(output[k].placeId) :
              queries[i].category # queries[j].category

\* C23: the promise of searchResources never rejects.  With categories
\* that are not iterable it resolves to the empty list without a query; a
\* category whose place types cannot be looked up gets no query, and every
\* other category of the list is searched for all of its place types.
C23_NeverRejects ==
    /\ outcome # "rejected"
    /\ pc = "done" =>
          /\ Returned
          /\ filters.shape # "array" => (output = <<>> /\ queries = <<>>)
          /\ \A c \in 1..Len(filters.categories) :
                Cardinality(queriesOf(c)) =
                    (IF filters.categories[c] \in OddCategories THEN 0
                     ELSE Len(categoryMap(toLowerCase(filters.categories[c]))))

\* C23 happens: the first category could not be looked up, the second was
\* searched and the search returned places.
C23_Witness ==
    /\ pc = "done"
    /\ Len(filters.categories) = 2
    /\ filters.categories[1] \in NumberCategories
    /\ queriesOf(2) # {}
    /\ output # <<>>

\* C24: searchNearby fetches only with a key: the key it uses is the cached
\* one or, when none is cached, that of the environment, and with no key it
\* throws before the fetch, so the query fails.  With no key in the
\* environment every query of a search fails so and the search resolves to
\* the empty list.
C24_NoFetchWithoutKey ==
    /\ apiKey \in {"", envKey}
    /\ \A i \in 1..Len(queries) :
          /\ queries[i].fetched = (envKey # "")
          /\ ~queries[i].fetched => queries[i].status \in {"pending", "failed"}
    /\ (envKey = "" /\ pc = "done") =>
          /\ \A i \in 1..Len(queries) : queries[i].status = "failed"
          /\ Returned
          /\ output = <<>>

\* C24 happens: a search with no key in the environment issued several
\* queries and returned.
C24_Witness ==
    /\ envKey = ""
    /\ pc = "done"
    /\ Len(queries) >= 2
    /\ Returned

\* C25: once every handler run is over, currentResults, the markers and
\* the results list are those of the search initiated last.
C25_LatestSearchWins ==
    (/\ page.mapLoaded
     /\ page.initiated > 0
     /\ \A i \in 1..Len(page.runs) : page.runs[i].pc = "done")
    => /\ page.currentResults = page.initiated
       /\ page.markers = page.initiated
       /\ page.resultsList = page.initiated

\* C26: the search button is disabled exactly in the states in which a
\* performSearch awaits searchResources.
C26_DisabledWhileSearching ==
    page.disabled <=> (\E i \in 1..Len(page.runs) : page.runs[i].pc = "search")

\* C27: getCurrentLocation makes at most three attempts, one at a time,
\* with the option sets in the order of the array; it resolves with the
\* position of the first attempt that succeeds and makes no attempt after
\* it; it rejects after the third attempt failed or, when the browser has
\* no geolocation, at once with no attempt; its promise is settled at most
\* once and no attempt is made after it.
C27_ThreeAttempts ==
    /\ Len(geo.used) <= 3
    /\ geo.used = SubSeq(attempts, 1, Len(geo.used))
    /\ geo.attemptCount = Len(geo.used)
    /\ geo.inFlight <= 1
    /\ Len(geo.settled) <= 1
    /\ (geo.pc = "settled") <=> (Len(geo.settled) = 1)
    /\ geo.pc = "settled" =>
          /\ geo.inFlight = 0
          /\ geo.settled[1].how = "resolve" =>
                /\ Len(geo.errors) = Len(geo.used) - 1
                /\ geo.settled[1].with = geo.userLocation
          /\ geo.settled[1].how = "reject" =>
                \/ /\ geo.supported
                   /\ Len(geo.used) = 3
                   /\ Len(geo.errors) = 3
                \/ /\ ~geo.supported
                   /\ geo.used = <<>>

\* C27 happens: two attempts failed and the third succeeded.
C27_Witness ==
    /\ geo.pc = "settled"
    /\ Len(geo.errors) = 2
    /\ geo.settled[1].how = "resolve"

\* C27 as stated: the promise is rejected only after the third attempt
\* failed.
C27_RejectsOnlyAfterThird ==
    (geo.pc = "settled" /\ geo.settled[1].how = "reject") =>
        (Len(geo.used) = 3 /\ Len(geo.errors) = 3)

\* C28: every call of loadGoogleMaps that waits for the script or polls is
\* eventually resolved or rejected.
C28_EveryLoadSettles ==
    \A i \in 1..MaxLoads :
        (loader.calls[i] \in {"loading", "polling"})
            ~> (loader.calls[i] \in Settled)

\* C29: auto-advance that ran when the tab was hidden has no interval
\* while the tab is hidden, and has one again once the tab is visible, the
\* pointer being outside the slideshow and no click in between.
C29_ResumesWhenVisible ==
    /\ slideshow.sinceHidden = "hidden" =>
          (slideshow.hidden /\ slideshow.resumeTimeouts = 0
              => slideshow.intervals = 0)
    /\ (slideshow.sinceHidden = "visible" /\ ~slideshow.pointerOver) =>
          (slideshow.intervals > 0 /\ slideshow.isAutoAdvancing)

\* C30: while the pointer is over the slideshow no interval is set.
C30_NoTimerWhileHovering ==
    slideshow.pointerOver => slideshow.intervals = 0

====
